---------------------------- MODULE Spec2Model ----------------------------
(***************************************************************************)
(* Reservation lifecycle and expiration engine of the reservation-system   *)
(* backend (NestJS + Prisma/PostgreSQL + BullMQ).                          *)
(*                                                                         *)
(* The store is PostgreSQL reached through Prisma.  No call of the service *)
(* passes an isolationLevel to $transaction, so every interactive          *)
(* transaction runs at the database default, READ COMMITTED:               *)
(*   - a read (findUnique, findMany) sees the rows committed at the moment *)
(*     of the statement plus the transaction's own writes, and takes no    *)
(*     lock;                                                               *)
(*   - an update takes the row's lock, waits while another transaction     *)
(*     holds it, and then writes the row whatever its status has become    *)
(*     (every update of the service selects by id only);                   *)
(*   - {increment: n} / {decrement: n} are relative updates of the         *)
(*     committed value;                                                    *)
(*   - an exception thrown inside the $transaction callback rolls back the *)
(*     writes made through tx, and nothing else.                           *)
(* Every await of the service is a point where another call may run.  An   *)
(* action below is one statement together with the local code that follows *)
(* it; a statement whose only effect is invisible to every other call (it  *)
(* takes a row lock, or writes rows that stay uncommitted) is taken with   *)
(* the statement after it, which waits for the same locks.                 *)
(*                                                                         *)
(* Time is counted in units of two minutes, the length of a hold.          *)
(***************************************************************************)
EXTENDS Integers, Sequences, FiniteSets, TLC

\* ------------------------------------------------------------- bounds
MaxRes == 2        \* reservations created in one behaviour
MaxTime == 2       \* the clock runs from 0 to MaxTime
MaxQty == 1        \* quantities requested are 1..MaxQty
InitStock == 1     \* availableStock of the product when the behaviour starts
MaxInflight == 2   \* calls in flight at the same time
MaxRestores == 1   \* complete is not called on a reservation restored this often
MaxRecoveries == 1 \* process starts whose recovery finds an ACTIVE reservation

\* ---------------------------------------------------- program constants
RESERVATION_DURATION == 1   \* RESERVATION_DURATION_MS = 2 * 60 * 1000: one unit
JOB_RETRY_ATTEMPTS == 3     \* attempts: JOB_RETRY_ATTEMPTS of every job added

ACTIVE == "ACTIVE"
COMPLETED == "COMPLETED"
EXPIRED == "EXPIRED"
ReservationStatus == {ACTIVE, COMPLETED, EXPIRED}

Products == {"p1", "p2"}
Requested == {"p1"}   \* the product the clients ask for, unless said otherwise
UnknownProduct == "p0"
Clients == {"c1", "c2"}
Worker == "w"
Sweeper == "s"
Recovery == "r"
Procs == Clients \cup {Worker, Sweeper, Recovery}
Ids == 1..MaxRes

VARIABLES
    now,            \* the wall clock (new Date(), Date.now())
    stock,          \* committed products.availableStock, by product id
    reservations,   \* committed reservation rows; the id of a row is its index
    jobs,           \* the BullMQ queue: the job with jobId expire-<id>, by id
    pc,             \* where each call stands
    loc,            \* the locals and the open transaction of each call
    limit,          \* how many calls may be in flight at once
    queue,          \* the job backend (Redis): "up", "flaky" or, for good, "down"
    restored,       \* history: how often stock was incremented for a reservation
    recoveries,     \* history: how many recovery runs have listed a reservation
    process         \* the timers of onModuleInit, and whether the module is up

vars == <<now, stock, reservations, jobs, pc, loc, limit, queue, restored,
          recoveries, process>>

\* The module before onModuleInit, and after it: the interval of the sweep is
\* set and the timeout of the recovery is pending.
Stopped == [up |-> FALSE, interval |-> "none", recovery |-> "none"]
Started == [up |-> TRUE, interval |-> "set", recovery |-> "pending"]

NoJob == [state |-> "none", fireAt |-> 0, attemptsMade |-> 0]

\* The locals of a call that is not running.
Idle == [op |-> "none", productId |-> UnknownProduct, quantity |-> 0, id |-> 0,
         clk |-> 0, list |-> {}, rows |-> {}, delta |-> 0, plock |-> FALSE,
         expiresAt |-> 0]

Created == 1..Len(reservations)

RECURSIVE SumQty(_)
SumQty(S) ==
    IF S = {} THEN 0
    ELSE LET x == CHOOSE y \in S : TRUE
         IN reservations[x].quantity + SumQty(S \ {x})

\* Row locks held by open transactions.
RowLocked(p, ids) == \E q \in Procs \ {p} : loc[q].rows \cap ids # {}
ProductLocked(p) == \E q \in Procs \ {p} : loc[q].plock

Inflight == {p \in Procs : pc[p] # "idle"}
CanBegin(p) ==
    /\ pc[p] = "idle"
    /\ Cardinality(Inflight) < limit
    /\ (p = "c2" => pc["c1"] # "idle")

\* The database is seeded and the module is in state module: k calls may
\* overlap, the job backend behaves as backend, every product has
\* availableStock s and no reservation exists.
Boot(k, backend, s, module) ==
    /\ now = 0
    /\ stock = [p \in Products |-> s]
    /\ reservations = <<>>
    /\ jobs = [i \in Ids |-> NoJob]
    /\ pc = [p \in Procs |-> "idle"]
    /\ loc = [p \in Procs |-> Idle]
    /\ limit = k
    /\ queue = backend
    /\ restored = [i \in Ids |-> 0]
    /\ recoveries = 0
    /\ process = module

\* The service has started: onModuleInit has run.
Setup(k, backend, s) == Boot(k, backend, s, Started)

Init == Setup(MaxInflight, "flaky", InitStock)

\* One call at a time.
InitSeq == Setup(1, "flaky", InitStock)

\* One call at a time, and the job backend is unreachable throughout.
InitDown == Setup(1, "down", InitStock)

\* One call at a time, and the job backend answers every call.
InitUp == Setup(1, "up", InitStock + 1)

\* One call at a time, stock for one hold more.
InitWide == Setup(1, "flaky", InitStock + 1)

\* What a call to the job backend may meet: TRUE, it answers; FALSE, it throws.
BackendAnswers ==
    IF queue = "down" THEN {FALSE}
    ELSE IF queue = "up" THEN {TRUE}
    ELSE BOOLEAN

Tick ==
    /\ now < MaxTime
    /\ now' = now + 1
    /\ UNCHANGED <<stock, reservations, jobs, pc, loc, limit, queue, restored, recoveries, process>>


\* ------------------------------------------------------------- helpers
SetLoc(p, r) == [loc EXCEPT ![p] = r]
Goto(p, label) == [pc EXCEPT ![p] = label]

\* A fault of the status update: the write also moves the row's deadline to
\* the clock.
SetStatusAndDeadline(rs, ids, st) ==
    [i \in DOMAIN rs |-> IF i \in ids
                         THEN [rs[i] EXCEPT !.status = st, !.expiresAt = now]
                         ELSE rs[i]]

\* tx.reservation.update / updateMany, at commit: the rows ids get status st.
SetStatus(rs, ids, st) ==
    [i \in DOMAIN rs |-> IF i \in ids THEN [rs[i] EXCEPT !.status = st] ELSE rs[i]]

\* A fault of create's stale query: a hold whose deadline is the clock itself
\* is not taken.
StaleOfStrict(productId) ==
    {i \in Created : /\ reservations[i].productId = productId
                     /\ reservations[i].status = ACTIVE
                     /\ reservations[i].expiresAt < now}

\* Another fault of create's stale query: the productId filter is missing.
StaleOfAnyProduct(productId) ==
    {i \in Created : /\ reservations[i].status = ACTIVE
                     /\ reservations[i].expiresAt <= now}

\* where: {productId, status: ACTIVE, expiresAt: {lte: now}}
StaleOf(productId) ==
    {i \in Created : /\ reservations[i].productId = productId
                     /\ reservations[i].status = ACTIVE
                     /\ reservations[i].expiresAt <= now}

\* A fault of the stale query: holds in their last unit are taken as stale.
StaleSoon ==
    {i \in Created : /\ reservations[i].status = ACTIVE
                     /\ reservations[i].expiresAt <= now + 1}

\* where: {status: ACTIVE, expiresAt: {lte: now}}
Stale ==
    {i \in Created : /\ reservations[i].status = ACTIVE
                     /\ reservations[i].expiresAt <= now}

\* where: {status: ACTIVE}
AllActive == {i \in Created : reservations[i].status = ACTIVE}

\* Faults of the deadline test: one that treats the deadline itself as passed,
\* one that lets a call one unit late through.
PastDeadlineInclusive(t, expiresAt) == t >= expiresAt

PastDeadlineLate(t, expiresAt) == t > expiresAt + 1

\* new Date() > reservation.expiresAt
PastDeadline(t, expiresAt) == t > expiresAt

Max(a, b) == IF a > b THEN a ELSE b

\* A fault of the add: no jobId is given, so the queue takes the job even when
\* one is waiting for the same reservation.
AddJobNoKey(q, id, delay) ==
    [q EXCEPT ![id] = [state |-> "delayed", fireAt |-> now + delay,
                       attemptsMade |-> 0]]

\* queue.add("expire-reservation", {reservationId}, {delay, jobId: `expire-${id}`}):
\* BullMQ ignores an add whose jobId is already in the queue.
AddJob(q, id, delay) ==
    IF q[id].state = "none"
    THEN [q EXCEPT ![id] = [state |-> "delayed", fireAt |-> now + delay,
                       attemptsMade |-> 0]]
    ELSE q

\* scheduleExpirationJob: a job backend that is down makes getJob or add throw,
\* and the catch logs it.
ScheduleExpirationJob(q, id, expiresAt, up) ==
    IF ~up THEN q
    ELSE IF q[id].state # "none" THEN q
    ELSE LET delay == Max(0, expiresAt - now)
         IN IF delay > 0 THEN AddJob(q, id, delay) ELSE q

\* getJob(`expire-${id}`) and job.remove() inside a try/catch: remove() throws on
\* a job the worker holds.
RemoveJob(q, id, up) ==
    IF up /\ q[id].state \in {"delayed", "completed", "failed"}
    THEN [q EXCEPT ![id] = NoJob]
    ELSE q

\* A fault of incrementStock: the update is left out.
IncrementStockNot(s, productId, quantity) == s

\* productsService.incrementStock: this.prisma.product.update, not tx.
IncrementStock(s, productId, quantity) ==
    [s EXCEPT ![productId] = @ + quantity]

\* --------------------------------------------------------------- create
\* tx.reservation.findMany of the stale holds of the product.
CreateFindExpired(p, productId, quantity) ==
    /\ CanBegin(p)
    /\ Len(reservations)
         + Cardinality({q \in Clients : pc[q] \in {"cExpire", "cCheck", "cCommit"}})
         < MaxRes
    /\ LET list == StaleOf(productId)
       IN /\ loc' = SetLoc(p, [Idle EXCEPT !.op = "create",
                                           !.productId = productId,
                                           !.quantity = quantity,
                                           !.list = list])
          /\ pc' = Goto(p, IF list = {} THEN "cCheck" ELSE "cExpire")
    /\ UNCHANGED <<now, stock, reservations, jobs, limit, queue, restored, recoveries, process>>

\* A fault of the lazy expiration: it is given this.prisma in place of tx, so
\* its two writes commit at once and no rollback of the call undoes them.
CreateExpireStaleOutsideTx(p) ==
    /\ pc[p] = "cExpire"
    /\ ~RowLocked(p, loc[p].list)
    /\ ~ProductLocked(p)
    /\ reservations' = SetStatus(reservations, loc[p].list, EXPIRED)
    /\ stock' = [stock EXCEPT ![loc[p].productId] = @ + SumQty(loc[p].list)]
    /\ restored' = [i \in Ids |-> IF i \in loc[p].list THEN restored[i] + 1
                                  ELSE restored[i]]
    /\ pc' = Goto(p, "cCheck")
    /\ UNCHANGED <<now, jobs, loc, limit, queue, recoveries, process>>

\* expireReservationsAndRestoreStock(tx, expiredReservations, productId):
\* updateMany to EXPIRED by id, then one increment by the total, both in tx.
CreateExpireStale(p) ==
    /\ pc[p] = "cExpire"
    /\ ~RowLocked(p, loc[p].list)
    /\ ~ProductLocked(p)
    /\ loc' = SetLoc(p, [loc[p] EXCEPT !.rows = loc[p].list,
                                       !.delta = SumQty(loc[p].list),
                                       !.plock = TRUE])
    /\ pc' = Goto(p, "cCheck")
    /\ UNCHANGED <<now, stock, reservations, jobs, limit, queue, restored, recoveries, process>>

\* A fault of the stock test: off by one, a request one too large passes.
InsufficientOffByOne(availableStock, quantity) == availableStock < quantity - 1

\* product.availableStock < quantity
Insufficient(availableStock, quantity) == availableStock < quantity

\* A fault of create: the product is not tested, and a product that is not
\* there is taken to have the stock asked for.
CreateErrorNoProductTest(l) ==
    IF l.productId \in Products
         /\ Insufficient(stock[l.productId] + l.delta, l.quantity)
    THEN "BadRequestException"
    ELSE "none"

\* if (!product) throw new NotFoundException;
\* if (product.availableStock < quantity) throw new BadRequestException
CreateError(l) ==
    IF l.productId \notin Products THEN "NotFoundException"
    ELSE IF Insufficient(stock[l.productId] + l.delta, l.quantity)
    THEN "BadRequestException"
    ELSE "none"

\* tx.product.findUnique, the two throws (which roll the transaction back),
\* and tx.reservation.create with expiresAt = Date.now() + RESERVATION_DURATION_MS.
CreateCheckStock(p) ==
    /\ pc[p] = "cCheck"
    /\ LET l == loc[p]
       IN IF CreateError(l) # "none"
          THEN /\ loc' = SetLoc(p, Idle)
               /\ pc' = Goto(p, "idle")
          ELSE /\ loc' = SetLoc(p, [l EXCEPT !.expiresAt = now + RESERVATION_DURATION])
               /\ pc' = Goto(p, "cCommit")
    /\ UNCHANGED <<now, stock, reservations, jobs, limit, queue, restored, recoveries, process>>

\* A fault of the new row: the deadline is the clock, the duration is not added.
NewReservationNoHold(productId, quantity, expiresAt) ==
    [productId |-> productId, quantity |-> quantity,
     status |-> ACTIVE, expiresAt |-> now]

\* data: {productId, quantity, status: ReservationStatus.ACTIVE, expiresAt}
NewReservation(productId, quantity, expiresAt) ==
    [productId |-> productId, quantity |-> quantity,
     status |-> ACTIVE, expiresAt |-> expiresAt]

\* tx.product.update {decrement: quantity}, and the commit of the transaction:
\* the stale rows become EXPIRED, the new row appears, the stock moves by the
\* transaction's increments and decrement.
CreateCommit(p) ==
    /\ pc[p] = "cCommit"
    /\ ~ProductLocked(p)
    /\ LET l == loc[p]
           row == NewReservation(l.productId, l.quantity, l.expiresAt)
       IN /\ reservations' = Append(SetStatus(reservations, l.rows, EXPIRED), row)
          /\ stock' = [stock EXCEPT ![l.productId] = @ + l.delta - l.quantity]
          /\ restored' = [i \in Ids |-> IF i \in l.rows THEN restored[i] + 1
                                        ELSE restored[i]]
          /\ loc' = SetLoc(p, [Idle EXCEPT !.op = "create",
                                           !.id = Len(reservations) + 1,
                                           !.expiresAt = l.expiresAt])
    /\ pc' = Goto(p, "cSchedule")
    /\ UNCHANGED <<now, jobs, limit, queue, recoveries, process>>

\* A fault of create: the scheduling is awaited inside the transaction and its
\* error is not caught, so a job backend that throws undoes the new hold.
CreateScheduleFatal(p) ==
    /\ pc[p] = "cSchedule"
    /\ \E up \in BackendAnswers :
         IF up
         THEN /\ jobs' = ScheduleExpirationJob(jobs, loc[p].id, loc[p].expiresAt, up)
              /\ UNCHANGED <<reservations, stock>>
         ELSE /\ jobs' = jobs
              /\ reservations' = SubSeq(reservations, 1, Len(reservations) - 1)
              /\ stock' = IncrementStock(stock, reservations[loc[p].id].productId,
                                          reservations[loc[p].id].quantity)
    /\ loc' = SetLoc(p, Idle)
    /\ pc' = Goto(p, "idle")
    /\ UNCHANGED <<now, limit, queue, restored, recoveries, process>>

\* scheduleExpirationJob(queue, reservation.id, reservation.expiresAt), return.
CreateSchedule(p) ==
    /\ pc[p] = "cSchedule"
    /\ \E up \in BackendAnswers :
         jobs' = ScheduleExpirationJob(jobs, loc[p].id, loc[p].expiresAt, up)
    /\ loc' = SetLoc(p, Idle)
    /\ pc' = Goto(p, "idle")
    /\ UNCHANGED <<now, stock, reservations, limit, queue, restored, recoveries, process>>

\* ------------------------------------------------------------- complete
\* A fault of complete's status test: only a COMPLETED reservation is refused.
CompleteErrorLax(id) ==
    IF id \notin Created THEN "NotFoundException"
    ELSE IF reservations[id].status = COMPLETED THEN "BadRequestException"
    ELSE "none"

\* if (!reservation) throw new NotFoundException;
\* if (reservation.status !== ACTIVE) throw new BadRequestException
CompleteError(id) ==
    IF id \notin Created THEN "NotFoundException"
    ELSE IF reservations[id].status # ACTIVE THEN "BadRequestException"
    ELSE "none"

\* tx.reservation.findUnique, the NotFound and status throws (nothing has been
\* written when they are thrown), the deadline test.
CompleteFind(p, id) ==
    /\ CanBegin(p)
    /\ CompleteError(id) = "none" => restored[id] < MaxRestores
    /\ IF CompleteError(id) # "none"
       THEN UNCHANGED <<loc, pc>>
       ELSE /\ loc' = SetLoc(p, [Idle EXCEPT !.op = "complete", !.id = id,
                                             !.clk = now])
            /\ pc' = Goto(p, IF PastDeadline(now, reservations[id].expiresAt)
                             THEN "xUpdate" ELSE "kUpdate")
    /\ UNCHANGED <<now, stock, reservations, jobs, limit, queue, restored, recoveries, process>>

\* The expired branch: tx.reservation.update to EXPIRED, then incrementStock,
\* which commits on its own connection, then the throw inside the callback,
\* which rolls the transaction's status update back.
CompleteExpire(p) ==
    /\ pc[p] = "xUpdate"
    /\ ~RowLocked(p, {loc[p].id})
    /\ ~ProductLocked(p)
    /\ stock' = IncrementStock(stock, reservations[loc[p].id].productId,
                                reservations[loc[p].id].quantity)
    /\ restored' = [restored EXCEPT ![loc[p].id] = @ + 1]
    /\ loc' = SetLoc(p, Idle)
    /\ pc' = Goto(p, "idle")
    /\ UNCHANGED <<now, reservations, jobs, limit, queue, recoveries, process>>

\* A fault of complete: the removal of the job is not in a try/catch, so a job
\* backend that throws makes the callback throw and the update is rolled back.
CompleteUpdateFatal(p) ==
    /\ pc[p] = "kUpdate"
    /\ ~RowLocked(p, {loc[p].id})
    /\ \E up \in BackendAnswers :
         /\ jobs' = RemoveJob(jobs, loc[p].id, up)
         /\ IF up
            THEN /\ loc' = SetLoc(p, [loc[p] EXCEPT !.rows = {loc[p].id}])
                 /\ pc' = Goto(p, "kCommit")
            ELSE /\ loc' = SetLoc(p, Idle)
                 /\ pc' = Goto(p, "idle")
    /\ UNCHANGED <<now, stock, reservations, limit, queue, restored, recoveries, process>>

\* tx.reservation.update to COMPLETED, then getJob and job.remove, still
\* inside the transaction callback.
CompleteUpdate(p) ==
    /\ pc[p] = "kUpdate"
    /\ ~RowLocked(p, {loc[p].id})
    /\ \E up \in BackendAnswers : jobs' = RemoveJob(jobs, loc[p].id, up)
    /\ loc' = SetLoc(p, [loc[p] EXCEPT !.rows = {loc[p].id}])
    /\ pc' = Goto(p, "kCommit")
    /\ UNCHANGED <<now, stock, reservations, limit, queue, restored, recoveries, process>>

\* The store fails complete(id) on its completing branch: the update throws, or
\* the commit does.  The update to COMPLETED is rolled back; what job.remove()
\* has done to the queue is not part of the transaction and stays.
CompleteFail(p) ==
    /\ pc[p] \in {"kUpdate", "kCommit"}
    /\ loc' = SetLoc(p, Idle)
    /\ pc' = Goto(p, "idle")
    /\ UNCHANGED <<now, stock, reservations, jobs, limit, queue, restored, recoveries, process>>

CompleteCommit(p) ==
    /\ pc[p] = "kCommit"
    /\ reservations' = SetStatus(reservations, loc[p].rows, COMPLETED)
    /\ loc' = SetLoc(p, Idle)
    /\ pc' = Goto(p, "idle")
    /\ UNCHANGED <<now, stock, jobs, limit, queue, restored, recoveries, process>>

\* --------------------------------------------------------------- expire
\* Where expire(id) returns to: the worker's job is done, the sweep and the
\* recovery go on with the next reservation of their list.
AfterExpire(p) ==
    IF p = Worker
    THEN /\ jobs' = [jobs EXCEPT ![loc[p].id].state = "completed"]
         /\ pc' = Goto(p, "idle")
         /\ loc' = SetLoc(p, Idle)
    ELSE IF loc[p].list = {}
    THEN /\ jobs' = jobs
         /\ pc' = Goto(p, "idle")
         /\ loc' = SetLoc(p, Idle)
    ELSE /\ jobs' = jobs
         /\ pc' = Goto(p, IF p = Sweeper THEN "sLoop" ELSE "rLoop")
         /\ loc' = SetLoc(p, [loc[p] EXCEPT !.id = 0, !.rows = {}])

\* A fault of expire's guard: it passes every reservation that is not COMPLETED.
ExpireGuardNotCompleted(status) == status # COMPLETED

\* Another fault of expire's guard: it passes everything that is not EXPIRED.
ExpireGuardNotExpired(status) == status # EXPIRED

\* reservation.status === ReservationStatus.ACTIVE
ExpireGuard(status) == status = ACTIVE

\* tx.reservation.findUnique and the two tests of expire(id).
ExpireFind(p) ==
    /\ pc[p] = "eFind"
    /\ LET id == loc[p].id
       IN IF id \in Created /\ ExpireGuard(reservations[id].status)
          THEN /\ pc' = Goto(p, "eUpdate")
               /\ UNCHANGED <<loc, jobs>>
          ELSE AfterExpire(p)
    /\ UNCHANGED <<now, stock, reservations, limit, queue, restored, recoveries, process>>

\* tx.reservation.update to EXPIRED, then incrementStock, which commits on its
\* own connection while the transaction is still open.
ExpireRestore(p) ==
    /\ pc[p] = "eUpdate"
    /\ ~RowLocked(p, {loc[p].id})
    /\ ~ProductLocked(p)
    /\ stock' = IncrementStock(stock, reservations[loc[p].id].productId,
                                reservations[loc[p].id].quantity)
    /\ restored' = [restored EXCEPT ![loc[p].id] = @ + 1]
    /\ loc' = SetLoc(p, [loc[p] EXCEPT !.rows = {loc[p].id}])
    /\ pc' = Goto(p, "eCommit")
    /\ UNCHANGED <<now, reservations, jobs, limit, queue, recoveries, process>>

ExpireCommit(p) ==
    /\ pc[p] = "eCommit"
    /\ reservations' = SetStatus(reservations, loc[p].rows, EXPIRED)
    /\ AfterExpire(p)
    /\ UNCHANGED <<now, stock, limit, queue, restored, recoveries, process>>

\* A fault of the retry: the attempts of the job are not counted.
RetryOrFailForever(job) == [job EXCEPT !.state = "delayed", !.fireAt = now]

\* What BullMQ does with a job whose handler threw: with attempts left it waits
\* for the backoff (5 s, then 10 s: less than a unit of the clock, so the job is
\* due again within the unit), with none left it goes to the failed set, where
\* it stays under its jobId.
RetryOrFail(job) ==
    IF job.attemptsMade < JOB_RETRY_ATTEMPTS
    THEN [job EXCEPT !.state = "delayed", !.fireAt = now]
    ELSE [job EXCEPT !.state = "failed"]

\* A fault of the background runs: the error of expire(id) is not caught, and
\* the run never returns.
ExpireFailUncaught(p) ==
    /\ pc[p] \in {"eFind", "eUpdate", "eCommit"}
    /\ pc[p] = "eCommit" => restored[loc[p].id] <= MaxRestores
    /\ loc' = SetLoc(p, Idle)
    /\ pc' = Goto(p, "crashed")
    /\ UNCHANGED <<now, stock, reservations, jobs, limit, queue, restored, recoveries, process>>

\* The store fails expire(id): a statement of the transaction throws, or the
\* commit does (the transaction has outlived its timeout, the connection is
\* lost).  What was written through tx is rolled back; incrementStock, once it
\* has returned, is committed and stays.  In the worker, process rethrows and
\* the job is retried or failed; in the sweep and in the recovery the catch
\* around the whole run logs the error and the run ends.
ExpireFail(p) ==
    /\ pc[p] \in {"eFind", "eUpdate", "eCommit"}
    /\ pc[p] = "eCommit" => restored[loc[p].id] <= MaxRestores
    /\ jobs' = IF p = Worker
               THEN [jobs EXCEPT ![loc[p].id] = RetryOrFail(jobs[loc[p].id])]
               ELSE jobs
    /\ loc' = SetLoc(p, Idle)
    /\ pc' = Goto(p, "idle")
    /\ UNCHANGED <<now, stock, reservations, limit, queue, restored, recoveries, process>>

\* --------------------------------------------------------------- worker
\* ExpirationProcessor.process: a delayed job whose delay has passed.
WorkerProcess(id) ==
    /\ CanBegin(Worker)
    /\ jobs[id].state = "delayed"
    /\ jobs[id].fireAt <= now
    /\ jobs' = [jobs EXCEPT ![id].state = "active", ![id].attemptsMade = @ + 1]
    /\ loc' = SetLoc(Worker, [Idle EXCEPT !.op = "expire", !.id = id])
    /\ pc' = Goto(Worker, "eFind")
    /\ UNCHANGED <<now, stock, reservations, limit, queue, restored, recoveries, process>>

\* A fault of the sweep's query: the comparison with the clock is inverted.
SweepSelectFuture ==
    {i \in Created : /\ reservations[i].status = ACTIVE
                     /\ reservations[i].expiresAt > now}

\* Another fault of the sweep's query: the expiresAt filter is missing.
SweepSelectAllActive == AllActive

\* -------------------------------------------------------------- sweeper
SweepSelect == Stale

\* checkExpiredReservations: the findMany.  With nothing found the run ends.
SweepFind ==
    /\ process.interval = "set"
    /\ CanBegin(Sweeper)
    /\ IF SweepSelect = {}
       THEN UNCHANGED <<loc, pc>>
       ELSE /\ loc' = SetLoc(Sweeper, [Idle EXCEPT !.op = "sweep",
                                                   !.list = SweepSelect])
            /\ pc' = Goto(Sweeper, "sLoop")
    /\ UNCHANGED <<now, stock, reservations, jobs, limit, queue, restored, recoveries, process>>

\* for (const reservation of expiredReservations) await this.expire(id)
SweepNext ==
    /\ pc[Sweeper] = "sLoop"
    /\ \E id \in loc[Sweeper].list :
         /\ loc' = SetLoc(Sweeper, [loc[Sweeper] EXCEPT !.id = id,
                                                       !.list = @ \ {id}])
         /\ pc' = Goto(Sweeper, "eFind")
    /\ UNCHANGED <<now, stock, reservations, jobs, limit, queue, restored, recoveries, process>>

\* ------------------------------------------------------------- recovery
\* recoverReservations: the findMany of every ACTIVE row, and now = new Date().
RecoverRun(after) ==
    /\ CanBegin(Recovery)
    /\ recoveries < MaxRecoveries
    /\ IF AllActive = {}
       THEN UNCHANGED <<loc, pc, recoveries>>
       ELSE /\ loc' = SetLoc(Recovery, [Idle EXCEPT !.op = "recover", !.clk = now,
                                                    !.list = AllActive])
            /\ pc' = Goto(Recovery, "rLoop")
            /\ recoveries' = recoveries + 1
    /\ process' = after
    /\ UNCHANGED <<now, stock, reservations, jobs, limit, queue, restored>>

\* A start of the process and the recovery run that follows it, in one step.
RecoverFind == RecoverRun(process)

\* One turn of the loop: expire(id) when now > expiresAt, a fresh job when
\* remainingTime > 0, and nothing when remainingTime = 0.
RecoverNext ==
    /\ pc[Recovery] = "rLoop"
    /\ LET l == loc[Recovery]
       IN \E id \in l.list :
            LET remainingTime == reservations[id].expiresAt - l.clk
                rest == l.list \ {id}
            IN IF PastDeadline(l.clk, reservations[id].expiresAt)
               THEN /\ loc' = SetLoc(Recovery, [l EXCEPT !.id = id, !.list = rest])
                    /\ pc' = Goto(Recovery, "eFind")
               ELSE IF remainingTime > 0
               THEN /\ loc' = SetLoc(Recovery, [l EXCEPT !.id = id, !.list = rest,
                                                         !.delta = remainingTime])
                    /\ pc' = Goto(Recovery, "rRemove")
               ELSE IF rest = {}
               THEN /\ loc' = SetLoc(Recovery, Idle)
                    /\ pc' = Goto(Recovery, "idle")
               ELSE /\ loc' = SetLoc(Recovery, [l EXCEPT !.list = rest])
                    /\ pc' = Goto(Recovery, "rLoop")
    /\ UNCHANGED <<now, stock, reservations, jobs, limit, queue, restored, recoveries, process>>

\* getJob and existingJob.remove() in their own try/catch.
RecoverRemoveJob ==
    /\ pc[Recovery] = "rRemove"
    /\ \E up \in BackendAnswers : jobs' = RemoveJob(jobs, loc[Recovery].id, up)
    /\ pc' = Goto(Recovery, "rAdd")
    /\ UNCHANGED <<now, stock, reservations, loc, limit, queue, restored, recoveries, process>>

\* expirationQueue.add with jobId expire-<id> and delay remainingTime: BullMQ
\* ignores an add whose jobId exists.  A throw here leaves the loop: the only
\* catch is the one around the whole of recoverReservations.
RecoverAddJob ==
    /\ pc[Recovery] = "rAdd"
    /\ LET l == loc[Recovery]
       IN \E up \in BackendAnswers :
            /\ jobs' = IF up THEN AddJob(jobs, l.id, l.delta) ELSE jobs
            /\ IF up /\ l.list # {}
               THEN /\ pc' = Goto(Recovery, "rLoop")
                    /\ loc' = SetLoc(Recovery, [l EXCEPT !.id = 0, !.delta = 0])
               ELSE /\ pc' = Goto(Recovery, "idle")
                    /\ loc' = SetLoc(Recovery, Idle)
    /\ UNCHANGED <<now, stock, reservations, limit, queue, restored, recoveries, process>>

\* ------------------------------------------------------------ lifecycle
\* onModuleInit of a new process: setTimeout for the recovery, setInterval for
\* the sweep.  The process before it has exited, which Node does once no call
\* is running and no timer is pending.
ModuleInit ==
    /\ ~process.up
    /\ process.recovery # "pending"
    /\ \A p \in Procs : pc[p] = "idle"
    /\ recoveries < MaxRecoveries
    /\ process' = Started
    /\ UNCHANGED <<now, stock, reservations, jobs, pc, loc, limit, queue, restored, recoveries>>

\* A fault of onModuleDestroy: the interval is not cleared.
ModuleDestroyKeepsInterval ==
    /\ process.up
    /\ process' = [process EXCEPT !.up = FALSE]
    /\ UNCHANGED <<now, stock, reservations, jobs, pc, loc, limit, queue, restored, recoveries>>

\* onModuleDestroy: clearInterval.  The timeout of the recovery is not cleared:
\* when it is still pending it fires all the same.
ModuleDestroy ==
    /\ process.up
    /\ process' = [process EXCEPT !.up = FALSE, !.interval = "none"]
    /\ UNCHANGED <<now, stock, reservations, jobs, pc, loc, limit, queue, restored, recoveries>>

\* A fault of the recovery timer: it is an interval, and fires again.
RecoveryTimeoutRepeats ==
    /\ process.recovery = "pending"
    /\ RecoverRun(process)

\* The callback of setTimeout(..., RECOVERY_DELAY_MS): it fires once.
RecoveryTimeout ==
    /\ process.recovery = "pending"
    /\ RecoverRun([process EXCEPT !.recovery = "done"])

\* ------------------------------------------------------------------ next
\* Every step but the worker's pick of a job.
NextNoWorker ==
    \/ Tick
    \/ \E p \in Clients, productId \in Requested \cup {UnknownProduct},
          quantity \in 1..MaxQty : CreateFindExpired(p, productId, quantity)
    \/ \E p \in Clients : CreateExpireStale(p)
    \/ \E p \in Clients : CreateCheckStock(p)
    \/ \E p \in Clients : CreateCommit(p)
    \/ \E p \in Clients : CreateSchedule(p)
    \/ \E p \in Clients, id \in Ids : CompleteFind(p, id)
    \/ \E p \in Clients : CompleteExpire(p)
    \/ \E p \in Clients : CompleteUpdate(p)
    \/ \E p \in Clients : CompleteCommit(p)
    \/ SweepFind
    \/ SweepNext
    \/ RecoverFind
    \/ RecoverNext
    \/ RecoverRemoveJob
    \/ RecoverAddJob
    \/ \E p \in {Worker, Sweeper, Recovery} : ExpireFind(p)
    \/ \E p \in {Worker, Sweeper, Recovery} : ExpireRestore(p)
    \/ \E p \in {Worker, Sweeper, Recovery} : ExpireCommit(p)

Next ==
    \/ NextNoWorker
    \/ \E id \in Ids : WorkerProcess(id)

\* Calls overlap: up to MaxInflight at once.
Spec == Init /\ [][Next]_vars

\* Calls run one after the other; the clock may advance inside a call.
SpecSeq == InitSeq /\ [][Next]_vars

\* Calls run one after the other, the job backend works, and the product starts
\* with stock for one hold more.
SpecUp == InitUp /\ [][Next]_vars

\* As SpecSeq, with stock for one hold more.
SpecWide == InitWide /\ [][Next]_vars

\* Calls run one after the other, the job backend is down, so that holds go
\* stale with no job to expire them, and requests go up to MaxQty + 1.
NextBig ==
    \/ NextNoWorker
    \/ \E p \in Clients : CreateFindExpired(p, "p1", MaxQty + 1)

SpecBig == InitDown /\ [][NextBig]_vars

\* Calls run one after the other, the job backend is down, and the clients
\* ask for either product.
NextTwo ==
    \/ Tick
    \/ \E productId \in Products, quantity \in 1..MaxQty :
          CreateFindExpired("c1", productId, quantity)
    \/ CreateExpireStale("c1")
    \/ CreateCheckStock("c1")
    \/ CreateCommit("c1")
    \/ CreateSchedule("c1")
    \/ \E id \in Ids : CompleteFind("c1", id)
    \/ CompleteExpire("c1")
    \/ CompleteUpdate("c1")
    \/ CompleteCommit("c1")
    \/ SweepFind
    \/ SweepNext
    \/ ExpireFind(Sweeper)
    \/ ExpireRestore(Sweeper)
    \/ ExpireCommit(Sweeper)

SpecTwo == InitDown /\ [][NextTwo]_vars

\* Calls run one after the other, the job backend is down, and the store may
\* fail an expire(id) of the sweep or of the recovery.
NextCaught ==
    \/ NextNoWorker
    \/ ExpireFail(Sweeper)
    \/ ExpireFail(Recovery)

SpecCaught == InitDown /\ [][NextCaught]_vars

\* The job path alone: holds are created and left to their expiration jobs,
\* the job backend works, and the store may fail the worker's expire(id).
InitFaulty == Setup(1, "up", InitStock)

NextFaulty ==
    \/ Tick
    \/ \E quantity \in 1..MaxQty : CreateFindExpired("c1", "p1", quantity)
    \/ CreateExpireStale("c1")
    \/ CreateCheckStock("c1")
    \/ CreateCommit("c1")
    \/ CreateSchedule("c1")
    \/ \E id \in Ids : WorkerProcess(id)
    \/ ExpireFind(Worker)
    \/ ExpireRestore(Worker)
    \/ ExpireCommit(Worker)
    \/ ExpireFail(Worker)

SpecFaulty == InitFaulty /\ [][NextFaulty]_vars

\* Calls run one after the other, the job backend works, and the store may
\* fail a complete(id).
NextAbort ==
    \/ Next
    \/ \E p \in Clients : CompleteFail(p)

SpecAbort == InitFaulty /\ [][NextAbort]_vars

\* The scenario of the specification: a product with stock 5, one client that
\* asks for 2, then for 10, completes the first hold and then asks for 1, and
\* the clock, the worker and the sweep running as they will.
InitScenario == Setup(1, "up", 5)

NextScenario ==
    \/ Tick
    \/ Len(reservations) = 0 /\ CreateFindExpired("c1", "p1", 2)
    \/ Len(reservations) = 1 /\ CreateFindExpired("c1", "p1", 10)
    \/ CompleteFind("c1", 1)
    \/ /\ Len(reservations) = 1
       /\ reservations[1].status = COMPLETED
       /\ CreateFindExpired("c1", "p1", 1)
    \/ CreateExpireStale("c1")
    \/ CreateCheckStock("c1")
    \/ CreateCommit("c1")
    \/ CreateSchedule("c1")
    \/ CompleteExpire("c1")
    \/ CompleteUpdate("c1")
    \/ CompleteCommit("c1")
    \/ SweepFind
    \/ SweepNext
    \/ \E id \in Ids : WorkerProcess(id)
    \/ \E p \in {Worker, Sweeper} : ExpireFind(p)
    \/ \E p \in {Worker, Sweeper} : ExpireRestore(p)
    \/ \E p \in {Worker, Sweeper} : ExpireCommit(p)

SpecScenario == InitScenario /\ [][NextScenario]_vars

\* A step of a call that is in flight.
Continue ==
    \/ \E p \in Clients : CreateExpireStale(p)
    \/ \E p \in Clients : CreateCheckStock(p)
    \/ \E p \in Clients : CreateCommit(p)
    \/ \E p \in Clients : CreateSchedule(p)
    \/ \E p \in Clients : CompleteExpire(p)
    \/ \E p \in Clients : CompleteUpdate(p)
    \/ \E p \in Clients : CompleteCommit(p)
    \/ SweepNext
    \/ RecoverNext
    \/ RecoverRemoveJob
    \/ RecoverAddJob
    \/ \E p \in {Worker, Sweeper, Recovery} : ExpireFind(p)
    \/ \E p \in {Worker, Sweeper, Recovery} : ExpireRestore(p)
    \/ \E p \in {Worker, Sweeper, Recovery} : ExpireCommit(p)

\* The job backend is down for the whole behaviour, so no job ever exists and
\* the worker has nothing to pick.  Every call in flight goes on to its end
\* (the event loop runs each continuation), and the setInterval timer of
\* onModuleInit keeps firing the sweep whatever the other calls do.
SpecLive ==
    InitDown /\ [][NextNoWorker]_vars /\ WF_vars(Continue) /\ SF_vars(SweepFind)

\* As SpecLive with holds on either product, and the store fails expire(id)
\* of the sweep for the first reservation, as often as it is tried.  The
\* sweep's loop has no catch of its own: the throw leaves the loop and the run.
Failing == {1}

NextStarve ==
    \/ NextTwo
    \/ loc[Sweeper].id \in Failing /\ ExpireFail(Sweeper)

SpecStarve ==
    InitDown /\ [][NextStarve]_vars /\ WF_vars(Continue) /\ SF_vars(SweepFind)

\* The process is started and stopped, any number of times; while the module
\* is up one client creates and completes holds.  The job backend is down.
\* The timers fire whatever the calls do, and each call goes on to its end.
InitLifecycle == Boot(1, "down", InitStock, Stopped)

NextLifecycle ==
    \/ ModuleInit
    \/ ModuleDestroy
    \/ RecoveryTimeout
    \/ Tick
    \/ \E quantity \in 1..MaxQty :
          process.up /\ CreateFindExpired("c1", "p1", quantity)
    \/ CreateExpireStale("c1")
    \/ CreateCheckStock("c1")
    \/ CreateCommit("c1")
    \/ CreateSchedule("c1")
    \/ \E id \in Ids : process.up /\ CompleteFind("c1", id)
    \/ CompleteExpire("c1")
    \/ CompleteUpdate("c1")
    \/ CompleteCommit("c1")
    \/ SweepFind
    \/ SweepNext
    \/ RecoverNext
    \/ RecoverRemoveJob
    \/ RecoverAddJob
    \/ \E p \in {Sweeper, Recovery} : ExpireFind(p)
    \/ \E p \in {Sweeper, Recovery} : ExpireRestore(p)
    \/ \E p \in {Sweeper, Recovery} : ExpireCommit(p)

SpecLifecycle ==
    /\ InitLifecycle /\ [][NextLifecycle]_vars
    /\ WF_vars(Continue) /\ SF_vars(SweepFind) /\ SF_vars(RecoveryTimeout)

\* ---------------------------------------------------------------------
\* The quantity held by the reservations of a product that are ACTIVE or
\* COMPLETED.
Held(productId) ==
    SumQty({i \in Created : /\ reservations[i].productId = productId
                            /\ reservations[i].status \in {ACTIVE, COMPLETED}})

Quiescent == \A p \in Procs : pc[p] = "idle"

Background == {Worker, Sweeper, Recovery}

\* C1: no overselling: the quantities of a product's ACTIVE and COMPLETED
\* reservations never add up to more than the stock the product started with.
NoOverselling == \A productId \in Products : Held(productId) <= InitStock

\* C2: availableStock of every product is >= 0 in every reachable state.
StockNeverNegative == \A productId \in Products : stock[productId] >= 0

\* C3: a reservation that is COMPLETED or EXPIRED never changes status again.
StatusIsTerminal ==
    [][\A id \in Created :
         reservations[id].status \in {COMPLETED, EXPIRED}
           => reservations'[id].status = reservations[id].status]_vars

\* C4: once no call is in flight, the stock has been incremented for a
\* reservation at most once, and exactly once if and only if it is EXPIRED
\* (so never for a COMPLETED one).
RestoredOnceIffExpired ==
    Quiescent =>
      \A id \in Created :
        /\ restored[id] <= 1
        /\ restored[id] = 1 <=> reservations[id].status = EXPIRED

\* C5: when expire races complete or another expire on one reservation, exactly
\* one of them wins: expire writes (the stock increment, the EXPIRED status)
\* only to a row that is still ACTIVE, and complete never overwrites EXPIRED.
OneWinner ==
    [][\A p \in Procs :
         /\ (pc[p] \in {"eUpdate", "eCommit"} /\ pc'[p] # pc[p])
              => reservations[loc[p].id].status = ACTIVE
         /\ (pc[p] = "kCommit" /\ pc'[p] # pc[p])
              => reservations[loc[p].id].status # EXPIRED]_vars

\* C6: expire(id) is idempotent.  A call that finds the reservation ACTIVE
\* adds its quantity to the product's stock once and sets it EXPIRED; a call
\* that finds it otherwise changes neither a status nor a stock.
ExpireIdempotent ==
    [][\A p \in Background :
         (pc[p] \in {"eFind", "eUpdate", "eCommit"} /\ pc'[p] # pc[p])
           => LET id == loc[p].id
              IN IF id \in Created /\ reservations[id].status = ACTIVE
                 THEN /\ pc[p] = "eFind"
                         => /\ pc'[p] = "eUpdate"
                            /\ stock' = stock /\ reservations' = reservations
                      /\ pc[p] = "eUpdate"
                         => /\ stock' = [stock EXCEPT
                                           ![reservations[id].productId] =
                                               @ + reservations[id].quantity]
                            /\ reservations' = reservations
                      /\ pc[p] = "eCommit"
                         => /\ stock' = stock
                            /\ reservations' = SetStatus(reservations, {id}, EXPIRED)
                 ELSE /\ pc'[p] \notin {"eUpdate", "eCommit"}
                      /\ stock' = stock /\ reservations' = reservations]_vars

\* A job fires for a reservation that an earlier expire has already set EXPIRED.
ExpireIdempotentWitness ==
    /\ pc[Worker] = "eFind"
    /\ loc[Worker].id \in Created
    /\ reservations[loc[Worker].id].status = EXPIRED
    /\ restored[loc[Worker].id] = 1

\* C7: complete(id) on an ACTIVE reservation after its expiresAt leaves the
\* reservation EXPIRED and the product's stock increased by its quantity.
CompleteAfterDeadlineExpires ==
    [][\A p \in Clients :
         (pc[p] = "xUpdate" /\ pc'[p] = "idle")
           => LET id == loc[p].id
              IN /\ reservations'[id].status = EXPIRED
                 /\ stock' = [stock EXCEPT ![reservations[id].productId] =
                                             @ + reservations[id].quantity]]_vars

\* C8: complete(id) on an ACTIVE reservation whose deadline has not passed takes
\* the completing branch, ends with the reservation COMPLETED, and no step of
\* the call changes the stock of any product.
CompleteBeforeDeadline ==
    [][\A p \in Clients :
         /\ (pc[p] = "idle" /\ loc'[p].op = "complete")
              => (pc'[p] = "kUpdate"
                    <=> now <= reservations[loc'[p].id].expiresAt)
         /\ pc[p] \in {"kUpdate", "kCommit"} => stock' = stock
         /\ (pc[p] = "kCommit" /\ pc'[p] = "idle")
              => reservations' = SetStatus(reservations, {loc[p].id}, COMPLETED)]_vars

\* A reservation has been completed and its quantity is still out of the stock.
CompleteBeforeDeadlineWitness ==
    \E id \in Created :
        /\ reservations[id].status = COMPLETED
        /\ restored[id] = 0
        /\ stock[reservations[id].productId] = InitStock - reservations[id].quantity

\* C9: a reservation becomes COMPLETED only through a complete call whose
\* clock reading was not later than the reservation's expiresAt.
NoCompletionPastDeadline ==
    [][\A id \in Created :
         (reservations[id].status # COMPLETED /\ reservations'[id].status = COMPLETED)
           => \E p \in Clients :
                /\ pc[p] = "kCommit" /\ pc'[p] = "idle" /\ loc[p].id = id
                /\ loc[p].clk <= reservations[id].expiresAt]_vars

\* complete has read the clock after the deadline of a reservation that is
\* still ACTIVE and that no expiration has touched.
NoCompletionPastDeadlineWitness ==
    \E p \in Clients :
        /\ pc[p] = "xUpdate"
        /\ loc[p].clk > reservations[loc[p].id].expiresAt
        /\ reservations[loc[p].id].status = ACTIVE
        /\ restored[loc[p].id] = 0

\* C10, as stated: every reservation that is ACTIVE after its expiresAt is
\* eventually EXPIRED with its quantity restored.
EventuallyExpiredAsStated ==
    \A id \in Ids :
        (id \in Created /\ reservations[id].status = ACTIVE
           /\ now > reservations[id].expiresAt)
        ~> (id \in Created /\ reservations[id].status = EXPIRED /\ restored[id] >= 1)

\* C10, amended: every reservation that is ACTIVE after its expiresAt, and on
\* which no complete call that passed the deadline test is still in flight, is
\* eventually EXPIRED with its quantity restored, with the job backend down.
EventuallyExpired ==
    \A id \in Ids :
        (/\ id \in Created /\ reservations[id].status = ACTIVE
         /\ now > reservations[id].expiresAt
         /\ \A p \in Clients : ~(pc[p] \in {"kUpdate", "kCommit"} /\ loc[p].id = id))
        ~> (id \in Created /\ reservations[id].status = EXPIRED /\ restored[id] >= 1)

\* The sweep is committing the expiry of a reservation that has no job, after
\* a recovery run that could schedule none.
EventuallyExpiredWitness ==
    /\ pc[Sweeper] = "eCommit"
    /\ jobs[loc[Sweeper].id].state = "none"
    /\ now > reservations[loc[Sweeper].id].expiresAt
    /\ recoveries >= 1

\* C11: the hold lasts its full duration: no reservation is EXPIRED at a time
\* earlier than its expiresAt, whichever path expired it.
ExpiredNotEarly ==
    \A id \in Created :
        reservations[id].status = EXPIRED => now >= reservations[id].expiresAt

\* A reservation has been expired at the very moment of its deadline.
ExpiredNotEarlyWitness ==
    \E id \in Created :
        /\ reservations[id].status = EXPIRED
        /\ now = reservations[id].expiresAt

\* C12: a create that succeeds adds exactly one reservation, ACTIVE, with the
\* product and quantity asked for and expiresAt = the clock + the duration, and
\* takes the quantity from the product's stock in the same commit: the row
\* never appears without the decrement, nor the decrement without the row.
CreateAddsOneHold ==
    [][LET n == Len(reservations)
       IN /\ Len(reservations') \in {n, n + 1}
          /\ \A p \in Clients :
                (pc[p] = "cCheck" /\ pc'[p] = "cCommit")
                  => /\ loc'[p].expiresAt = now + RESERVATION_DURATION
                     /\ loc'[p].productId = loc[p].productId
                     /\ loc'[p].quantity = loc[p].quantity
          /\ Len(reservations') = n + 1
                => \E p \in Clients :
                     /\ pc[p] = "cCommit" /\ pc'[p] = "cSchedule"
                     /\ reservations'[n + 1] =
                          [productId |-> loc[p].productId,
                           quantity |-> loc[p].quantity,
                           status |-> ACTIVE,
                           expiresAt |-> loc[p].expiresAt]
                     /\ stock' = [stock EXCEPT ![loc[p].productId] =
                                     @ + SumQty(loc[p].rows) - loc[p].quantity]
                     /\ \A i \in 1..n :
                          reservations'[i] =
                            IF i \in loc[p].rows
                            THEN [reservations[i] EXCEPT !.status = EXPIRED]
                            ELSE reservations[i]
          /\ (\E productId \in Products : stock'[productId] < stock[productId])
                => Len(reservations') = n + 1]_vars

\* create has committed a hold with nothing reclaimed: the row is there and
\* the stock is lower by its quantity.
CreateAddsOneHoldWitness ==
    \E p \in Clients :
        /\ pc[p] = "cSchedule"
        /\ reservations[loc[p].id].status = ACTIVE
        /\ reservations[loc[p].id].expiresAt = loc[p].expiresAt
        /\ stock[reservations[loc[p].id].productId]
             = InitStock - reservations[loc[p].id].quantity

\* C13: create fails with InsufficientStock exactly when the stock the call
\* reads is below the quantity asked for, and a call that fails so has created
\* no reservation and left the stock as it was when the call began.
CreateInsufficientNoEffect ==
    [][\A p \in Clients :
         /\ (pc[p] \in {"cExpire", "cCheck"} \/ pc'[p] \in {"cExpire", "cCheck"})
              => stock' = stock /\ reservations' = reservations /\ jobs' = jobs
         /\ (pc[p] = "cCheck" /\ pc'[p] # "cCheck" /\ loc[p].productId \in Products)
              => (pc'[p] = "idle"
                    <=> stock[loc[p].productId] + SumQty(loc[p].rows)
                          < loc[p].quantity)]_vars

\* create is at its stock test, has reclaimed nothing, and the stock is short.
CreateInsufficientNoEffectWitness ==
    \E p \in Clients :
        /\ pc[p] = "cCheck"
        /\ loc[p].productId \in Products
        /\ loc[p].rows = {}
        /\ stock[loc[p].productId] < loc[p].quantity
        /\ stock[loc[p].productId] >= 0

\* C14, as stated: the lazy expiration of create is kept when the same call
\* then fails with InsufficientStock: every reservation the call found stale is
\* EXPIRED after the failure and the stock has their quantities back.
LazyExpirationKeptOnFailure ==
    [][\A p \in Clients :
         (pc[p] = "cCheck" /\ pc'[p] = "idle" /\ loc[p].productId \in Products)
           => /\ \A i \in loc[p].list : reservations'[i].status = EXPIRED
              /\ stock' = [stock EXCEPT ![loc[p].productId] =
                                          @ + SumQty(loc[p].list)]]_vars

\* C14, amended: the lazy expiration of create belongs to the transaction of
\* the call and is undone when the call fails with InsufficientStock: from the
\* moment the call has found stale reservations until it fails, it changes no
\* status and no stock, and it does fail when the stock with the stale
\* quantities added is still short.
LazyExpirationRolledBack ==
    [][\A p \in Clients :
         (loc[p].list # {} /\ pc[p] \in {"cExpire", "cCheck"})
           => /\ stock' = stock /\ reservations' = reservations
              /\ (pc[p] = "cCheck" /\ pc'[p] # "cCheck"
                    /\ stock[loc[p].productId] + SumQty(loc[p].list)
                         < loc[p].quantity)
                   => pc'[p] = "idle"]_vars

\* create has expired a stale hold inside its transaction and stands at the
\* stock test with a request that the reclaimed stock does not cover.
LazyExpirationRolledBackWitness ==
    \E p \in Clients :
        /\ pc[p] = "cCheck"
        /\ loc[p].rows # {}
        /\ stock[loc[p].productId] + SumQty(loc[p].rows) < loc[p].quantity

\* C15: create first takes every ACTIVE reservation of the product whose
\* expiresAt is not after the clock, whatever has become of their jobs, sets
\* them EXPIRED and adds the sum of their quantities to the stock; the stock
\* test is made against the stock with that sum added, and a create that
\* passes it commits the expirations and the sum with its own decrement.
LazyExpirationInCreate ==
    [][\A p \in Clients :
         /\ (pc[p] = "idle" /\ pc'[p] \in {"cExpire", "cCheck"})
              => /\ loc'[p].list =
                      {i \in Created :
                         /\ reservations[i].productId = loc'[p].productId
                         /\ reservations[i].status = ACTIVE
                         /\ reservations[i].expiresAt <= now}
                 /\ pc'[p] = "cExpire" <=> loc'[p].list # {}
         /\ (pc[p] = "cExpire" /\ pc'[p] # "cExpire")
              => pc'[p] = "cCheck" /\ loc'[p].rows = loc[p].list
         /\ (pc[p] = "cCheck" /\ pc'[p] # "cCheck" /\ loc[p].productId \in Products)
              => (pc'[p] = "cCommit"
                    <=> stock[loc[p].productId] + SumQty(loc[p].list)
                          >= loc[p].quantity)
         /\ (pc[p] = "cCommit" /\ pc'[p] = "cSchedule")
              => /\ \A i \in loc[p].list : reservations'[i].status = EXPIRED
                 /\ stock'[loc[p].productId] =
                      stock[loc[p].productId] + SumQty(loc[p].list)
                        - loc[p].quantity]_vars

\* create is about to commit a hold that fits only because it reclaimed a
\* stale hold whose expiration job is still waiting in the queue.
LazyExpirationInCreateWitness ==
    \E p \in Clients :
        /\ pc[p] = "cCommit"
        /\ stock[loc[p].productId] < loc[p].quantity
        /\ \E i \in loc[p].rows : jobs[i].state = "delayed"

\* C16: with the job backend working, a recovery run expires exactly the
\* reservations of its list that are past expiresAt at its clock reading, and
\* leaves every other one with a pending job whose delay is expiresAt minus
\* that reading.
RecoveryCorrect ==
    [][LET l == loc[Recovery]
           handled == IF pc[Recovery] = "rLoop" THEN l.list \ loc'[Recovery].list
                      ELSE {l.id}
       IN /\ (pc[Recovery] = "rLoop" /\ pc'[Recovery] # "rLoop")
               => (pc'[Recovery] = "eFind"
                     <=> \E id \in handled : l.clk > reservations[id].expiresAt)
          /\ (pc[Recovery] = "eCommit" /\ pc'[Recovery] # "eCommit")
               => reservations'[l.id].status = EXPIRED
          /\ (pc[Recovery] \in {"rLoop", "rAdd"}
                /\ pc'[Recovery] \in {"rLoop", "idle"})
               => \A id \in handled :
                     /\ jobs'[id].state = "delayed"
                     /\ jobs'[id].fireAt - now
                          = reservations[id].expiresAt - l.clk]_vars

\* C17: a failure on one reservation does not end a recovery run: the run
\* returns only when no reservation of its list is left to handle.
RecoveryGoesOn ==
    [][(pc[Recovery] # "idle" /\ pc'[Recovery] = "idle")
         => IF pc[Recovery] = "rLoop"
            THEN Cardinality(loc[Recovery].list) = 1
            ELSE loc[Recovery].list = {}]_vars

\* C18: a sweep that finds no ACTIVE reservation with expiresAt <= now writes
\* nothing: while there is none the sweeper does not leave its rest, and every
\* change of a status, a stock or a job is the step of another call.
SweepOfNothingWritesNothing ==
    [][(/\ pc[Sweeper] = "idle"
        /\ \A i \in Created : \/ reservations[i].status # ACTIVE
                               \/ reservations[i].expiresAt > now)
         => /\ pc'[Sweeper] = "idle"
            /\ loc'[Sweeper] = loc[Sweeper]
            /\ (reservations' # reservations \/ stock' # stock \/ jobs' # jobs)
                  => \E p \in Procs \ {Sweeper} :
                       pc[p] # "idle" \/ pc'[p] # "idle"]_vars

\* The sweeper is at rest, no call is in flight, and there are a reservation
\* in a final status and an ACTIVE one whose deadline is still ahead.
SweepOfNothingWritesNothingWitness ==
    /\ \A p \in Procs : pc[p] = "idle"
    /\ \E i \in Created : reservations[i].status \in {COMPLETED, EXPIRED}
    /\ \E i \in Created : reservations[i].status = ACTIVE
    /\ \A i \in Created : reservations[i].status = ACTIVE
                             => reservations[i].expiresAt > now

\* The scenario step by step, with the stock it ends with left open.
ScenarioStep(final) ==
    LET rs == reservations'
        n == Len(reservations')
    IN \* create(P, 2): R1 is ACTIVE and the stock is 3
       /\ n >= 1 => rs[1].productId = "p1" /\ rs[1].quantity = 2
       /\ (n >= 1 /\ rs[1].status = ACTIVE /\ restored'[1] = 0)
            => n = 1 /\ stock'["p1"] = 3
       \* create(P, 10): InsufficientStock, the stock unchanged
       /\ (pc["c1"] = "cCheck" /\ loc["c1"].quantity = 10 /\ pc'["c1"] # "cCheck")
            => pc'["c1"] = "idle" /\ stock' = stock /\ reservations' = reservations
       \* complete(R1): COMPLETED, the stock stays 3
       /\ (pc["c1"] = "kCommit" /\ pc'["c1"] = "idle")
            => rs[1].status = COMPLETED /\ stock' = stock
       /\ (n = 1 /\ rs[1].status = COMPLETED) => stock'["p1"] = 3
       \* create(P, 1): R2 with expiresAt = t + 120 s
       /\ (pc["c1"] = "cCheck" /\ loc["c1"].quantity = 1 /\ pc'["c1"] = "cCommit")
            => loc'["c1"].expiresAt = now + RESERVATION_DURATION
       /\ n = 2 => rs[2].productId = "p1" /\ rs[2].quantity = 1
       /\ (pc["c1"] = "cCommit" /\ pc'["c1"] = "cSchedule" /\ n = 2)
            => rs[2].status = ACTIVE /\ rs[2].expiresAt = loc["c1"].expiresAt
       \* the clock past t + 120 s and the sweep: R2 is EXPIRED
       /\ (pc[Sweeper] = "idle" /\ pc'[Sweeper] = "sLoop" /\ n = 2
             /\ rs[2].status = ACTIVE /\ now > rs[2].expiresAt)
            => 2 \in loc'[Sweeper].list
       /\ (pc[Sweeper] = "eCommit" /\ pc'[Sweeper] # "eCommit"
             /\ loc[Sweeper].id = 2)
            => rs[2].status = EXPIRED /\ stock'["p1"] = final
       /\ (n = 2 /\ rs[2].status = EXPIRED) => stock'["p1"] = final

\* C19, as stated: in the scenario the stock is 4 once R2 is EXPIRED.
ScenarioAsStated == [][ScenarioStep(4)]_vars

\* C19, amended: in the scenario (stock 5; create(P,2): stock 3; create(P,10)
\* fails, stock 3; complete(R1): COMPLETED, stock 3; create(P,1): R2 with
\* expiresAt = t + 120 s; clock past it, sweep) R2 is EXPIRED and the stock,
\* 2 since the create of R2, is 3.
ScenarioHolds == [][ScenarioStep(3)]_vars

\* The scenario has run to its end: R1 COMPLETED, R2 EXPIRED after its deadline.
ScenarioHoldsWitness ==
    /\ \A p \in Procs : pc[p] = "idle"
    /\ Len(reservations) = 2
    /\ reservations[1].status = COMPLETED
    /\ reservations[2].status = EXPIRED
    /\ restored = [i \in Ids |-> IF i = 2 THEN 1 ELSE 0]
    /\ now > reservations[2].expiresAt

\* C20: the expiration task of a reservation is kept under the one key
\* expire-<id>, and scheduling for an id whose task is pending is a no-op: a
\* pending task is never scheduled again or replaced, it only leaves the queue
\* by being removed or by being taken by the worker.
TaskDeduplicated ==
    [][\A id \in Ids :
         jobs[id].state = "delayed"
           => \/ jobs'[id] = jobs[id]
              \/ jobs'[id].state \in {"none", "active"}]_vars

\* Recovery is about to add the task of a reservation whose earlier task is
\* still pending, because its removal failed.
TaskDeduplicatedWitness ==
    /\ pc[Recovery] = "rAdd"
    /\ jobs[loc[Recovery].id].state = "delayed"
    /\ now > loc[Recovery].clk

\* C21: no partial stock mutation is visible outside a transaction: in every
\* committed state the stock has a reservation's quantity back if and only if
\* the reservation's committed status is EXPIRED.
NoPartialStockMutation ==
    \A id \in Created :
        restored[id] >= 1 <=> reservations[id].status = EXPIRED

\* C22: a job backend that throws while create schedules the expiration is not
\* fatal: the call returns all the same, the new reservation stays ACTIVE, the
\* stock keeps the decrement, and nothing is added to the queue.
SchedulingFailureNotFatal ==
    [][\A p \in Clients :
         (pc[p] = "cSchedule" /\ pc'[p] # "cSchedule" /\ queue = "down")
           => /\ pc'[p] = "idle"
              /\ loc[p].id \in Created
              /\ reservations' = reservations
              /\ reservations'[loc[p].id].status = ACTIVE
              /\ stock' = stock
              /\ jobs' = jobs]_vars

\* create has committed a hold whose deadline is ahead and is about to ask a
\* job backend that is down to schedule its expiration.
SchedulingFailureNotFatalWitness ==
    \E p \in Clients :
        /\ pc[p] = "cSchedule"
        /\ queue = "down"
        /\ reservations[loc[p].id].status = ACTIVE
        /\ reservations[loc[p].id].expiresAt > now
        /\ stock[reservations[loc[p].id].productId] < InitStock

\* C23: when the processing of an expiration task fails, the reservation is
\* left as it was and so is the stock: the failed attempt has written no row
\* and incremented no stock, and the task goes back to wait for its retry or,
\* with no attempt left, to the failed set.
TaskFailureChangesNothing ==
    [][(/\ pc[Worker] # "idle" /\ pc'[Worker] = "idle"
        /\ jobs'[loc[Worker].id].state \in {"delayed", "failed"})
         => /\ reservations' = reservations
            /\ stock' = stock
            /\ loc[Worker].rows = {}]_vars

\* C30: the worker calls expire(id) for the task it has taken; an error of
\* expire goes to the retry machinery, which puts the task back to wait while
\* fewer than JOB_RETRY_ATTEMPTS attempts were made and into the failed set
\* after the last; no task is attempted more often than that, and a task in the
\* failed set is not scheduled again.
WorkerRetriesBounded ==
    [][\A id \in Ids :
         /\ jobs'[id].attemptsMade <= JOB_RETRY_ATTEMPTS
         /\ (jobs[id].state = "delayed" /\ jobs'[id].state = "active")
              => /\ pc'[Worker] = "eFind" /\ loc'[Worker].id = id
                 /\ loc'[Worker].op = "expire"
                 /\ jobs'[id].attemptsMade = jobs[id].attemptsMade + 1
         /\ (jobs[id].state = "active" /\ jobs'[id].state # "active")
              => /\ pc[Worker] # "idle" /\ loc[Worker].id = id
                 /\ jobs'[id].state = "completed"
                      => /\ pc[Worker] \in {"eFind", "eCommit"}
                         /\ id \in Created => reservations'[id].status # ACTIVE
                 /\ jobs'[id].state = "delayed"
                      => /\ jobs[id].attemptsMade < JOB_RETRY_ATTEMPTS
                         /\ jobs'[id].attemptsMade = jobs[id].attemptsMade
                 /\ jobs'[id].state = "failed"
                      => jobs[id].attemptsMade = JOB_RETRY_ATTEMPTS
                 /\ jobs'[id].state \in {"completed", "delayed", "failed"}
         /\ jobs[id].state = "failed" => jobs'[id] = jobs[id]]_vars

\* The third attempt of a task has failed: the task is in the failed set and
\* its reservation is still ACTIVE past its deadline.
WorkerRetriesBoundedWitness ==
    \E id \in Created :
        /\ jobs[id].state = "failed"
        /\ jobs[id].attemptsMade = JOB_RETRY_ATTEMPTS
        /\ reservations[id].status = ACTIVE
        /\ now >= reservations[id].expiresAt

\* C24: complete(id) throws NotFound when no reservation has the id and the
\* status error when the reservation is COMPLETED or EXPIRED, and then goes no
\* further: a complete call that is past its tests, and so may write, is on a
\* reservation that exists and is ACTIVE.
CompleteRefusesNonActive ==
    /\ \A id \in Ids :
         /\ CompleteError(id) = "NotFoundException" <=> id \notin Created
         /\ CompleteError(id) = "BadRequestException"
              <=> id \in Created /\ reservations[id].status \in {COMPLETED, EXPIRED}
    /\ \A p \in Clients :
         loc[p].op = "complete"
           => /\ loc[p].id \in Created
              /\ reservations[loc[p].id].status = ACTIVE

\* No call is in flight, a reservation is EXPIRED with its stock restored and
\* an id is still unused: complete may be called on either.
CompleteRefusesNonActiveWitness ==
    /\ \A p \in Procs : pc[p] = "idle"
    /\ \E id \in Ids : CompleteError(id) = "NotFoundException"
    /\ \E id \in Created :
         /\ CompleteError(id) = "BadRequestException"
         /\ reservations[id].status = EXPIRED /\ restored[id] = 1

\* C25: expire(id) on a reservation that is missing or not ACTIVE is a no-op:
\* it returns without error (the worker's job is done, not retried), writes
\* nothing, and changes no status and no stock; so a job that fires after its
\* reservation was completed changes nothing.
ExpireOfNonActiveIsNoOp ==
    [][\A p \in Background :
         (/\ pc[p] = "eFind" /\ pc'[p] # "eFind"
          /\ ~(loc[p].id \in Created /\ reservations[loc[p].id].status = ACTIVE))
           => /\ reservations' = reservations
              /\ stock' = stock
              /\ restored' = restored
              /\ pc'[p] \notin {"eUpdate", "eCommit"}
              /\ p = Worker => jobs'[loc[p].id].state = "completed"]_vars

\* The job of a reservation fires after the reservation was completed: the
\* removal of the job had failed.
ExpireOfNonActiveIsNoOpWitness ==
    /\ pc[Worker] = "eFind"
    /\ reservations[loc[Worker].id].status = COMPLETED
    /\ now >= reservations[loc[Worker].id].expiresAt

\* C26: create for a product that does not exist throws NotFound: from its
\* first statement to the throw the call creates no reservation, changes no
\* stock and schedules no job, and the throw ends it.
CreateUnknownProductNoEffect ==
    [][\A p \in Clients :
         /\ (pc[p] = "idle" /\ loc'[p].op = "create"
               /\ loc'[p].productId \notin Products)
              => pc'[p] = "cCheck" /\ loc'[p].list = {}
         /\ (pc[p] = "cCheck" /\ loc[p].productId \notin Products)
              => /\ CreateError(loc[p]) = "NotFoundException"
                 /\ loc[p].rows = {}
                 /\ pc'[p] \in {"cCheck", "idle"}
         /\ (\/ /\ pc[p] = "idle" /\ loc'[p].op = "create"
                /\ loc'[p].productId \notin Products
             \/ /\ pc[p] \in {"cExpire", "cCheck", "cCommit"}
                /\ pc'[p] # pc[p]
                /\ loc[p].productId \notin Products)
              => /\ reservations' = reservations
                 /\ stock' = stock
                 /\ jobs' = jobs]_vars

\* create stands at its product test with a product id that names no product,
\* while a hold of a real product is ACTIVE.
CreateUnknownProductNoEffectWitness ==
    \E p \in Clients :
        /\ pc[p] = "cCheck"
        /\ loc[p].productId = UnknownProduct
        /\ \E id \in Created : reservations[id].status = ACTIVE

\* C27: scheduling computes delay = max(0, expiresAt - now) and, with the job
\* backend working and no task under expire-<id>, enqueues a task with that
\* delay whatever the delay is, 0 included.
ScheduleEnqueuesAlways ==
    [][\A p \in Clients :
         (/\ pc[p] = "cSchedule" /\ pc'[p] # "cSchedule"
          /\ queue = "up"
          /\ jobs[loc[p].id].state = "none")
           => /\ jobs'[loc[p].id].state = "delayed"
              /\ jobs'[loc[p].id].fireAt
                   = now + Max(0, loc[p].expiresAt - now)]_vars

\* C28: recovery acts on every ACTIVE reservation it has listed: one whose
\* expiresAt is not after the clock reading, equal included, goes to expire(id)
\* at once, and every other one goes to the scheduling of a fresh task; none
\* is passed over.
RecoveryActsOnEach ==
    [][LET l == loc[Recovery]
           handled == l.list \ loc'[Recovery].list
       IN (pc[Recovery] = "rLoop" /\ loc'[Recovery] # l)
            => \A id \in handled :
                 /\ loc'[Recovery].id = id
                 /\ pc'[Recovery] = IF reservations[id].expiresAt <= l.clk
                                    THEN "eFind" ELSE "rRemove"]_vars

\* C29: a complete that passes its tests asks the job backend to remove the
\* task expire-<id> and goes on to commit COMPLETED whatever the answer: with
\* the task absent or the backend throwing the queue is left as it is, and a
\* removal that succeeds leaves no pending task under the id.
CompleteRemovesTask ==
    [][\A p \in Clients :
         LET id == loc[p].id
         IN /\ (pc[p] = "kUpdate" /\ pc'[p] # "kUpdate")
                 => /\ pc'[p] = "kCommit"
                    /\ jobs' \in {jobs, [jobs EXCEPT ![id] = NoJob]}
                    /\ jobs[id].state = "none" => jobs' = jobs
                    /\ RemoveJob(jobs, id, FALSE) = jobs
                    /\ RemoveJob(jobs, id, TRUE)[id].state # "delayed"
            /\ (pc[p] = "kCommit" /\ pc'[p] # "kCommit")
                 => /\ pc'[p] = "idle"
                    /\ reservations'[id].status = COMPLETED
                    /\ jobs' = jobs]_vars

\* complete is about to commit COMPLETED although the task of the reservation
\* is still pending: the job backend threw when asked to remove it.
CompleteRemovesTaskWitness ==
    \E p \in Clients :
        /\ pc[p] = "kCommit"
        /\ jobs[loc[p].id].state = "delayed"
        /\ reservations[loc[p].id].status = ACTIVE

\* C34: expiresAt, quantity and productId of a reservation are fixed when it
\* is created: no step changes them, and no step deletes a reservation.
ReservationFieldsFixed ==
    [][/\ Len(reservations') >= Len(reservations)
       /\ \A id \in Created :
            /\ reservations'[id].expiresAt = reservations[id].expiresAt
            /\ reservations'[id].quantity = reservations[id].quantity
            /\ reservations'[id].productId = reservations[id].productId]_vars

\* One reservation has been completed and another expired after its deadline.
ReservationFieldsFixedWitness ==
    /\ \E id \in Created : reservations[id].status = COMPLETED
    /\ \E id \in Created :
         /\ reservations[id].status = EXPIRED
         /\ now > reservations[id].expiresAt

\* C35: stock conservation: in every committed state the availableStock of a
\* product plus the quantities of its ACTIVE and COMPLETED reservations is the
\* stock the product started with.
StockConserved ==
    \A productId \in Products : stock[productId] + Held(productId) = InitStock

\* C36: the deadline test is the same on every path: complete never goes on to
\* its COMPLETED update at a clock reading at which the sweep's and create's
\* query (expiresAt <= now) already selects the reservation for expiry.
DeadlineTestAgrees ==
    \A p \in Clients :
        pc[p] \in {"kUpdate", "kCommit"}
          => ~(reservations[loc[p].id].expiresAt <= loc[p].clk)

\* C37: create's lazy expiration against expire(id) or complete(id) on the same
\* reservation: a create commits EXPIRED, and the quantity with it, only for a
\* reservation that is still ACTIVE, so it neither restores what an expire has
\* restored nor overwrites a committed COMPLETED.
LazyExpirationRaceSafe ==
    [][\A p \in Clients :
         (pc[p] = "cCommit" /\ pc'[p] = "cSchedule")
           => \A i \in loc[p].rows : reservations[i].status = ACTIVE]_vars

\* C39: complete(id) removes the pending task only of a reservation whose
\* COMPLETED status is committed: with the job backend working, a reservation
\* that is ACTIVE before its deadline and on which no call is at work has its
\* task in the queue.
TaskRemovedOnlyWhenCompleted ==
    \A id \in Created :
        (/\ reservations[id].status = ACTIVE
         /\ now < reservations[id].expiresAt
         /\ \A p \in Procs : pc[p] = "idle" \/ loc[p].id # id)
          => jobs[id].state # "none"

\* C40: operations are local: a step of create changes the stock of no product
\* but its own and no reservation of another product; a step of complete(id)
\* or expire(id) changes no reservation but id and no stock but that of the
\* product of id.
OperationsAreLocal ==
    [][\A p \in Procs :
         /\ (pc[p] \in {"cExpire", "cCheck", "cCommit"} /\ pc'[p] # pc[p])
              => /\ \A productId \in Products \ {loc[p].productId} :
                       stock'[productId] = stock[productId]
                 /\ \A id \in Created :
                       reservations[id].productId # loc[p].productId
                         => reservations'[id] = reservations[id]
         /\ (pc[p] \in {"kUpdate", "kCommit", "xUpdate", "eFind", "eUpdate", "eCommit"}
               /\ pc'[p] # pc[p])
              => /\ \A id \in Created \ {loc[p].id} :
                       reservations'[id] = reservations[id]
                 /\ Len(reservations') = Len(reservations)
                 /\ \A productId \in Products :
                       (loc[p].id \in Created
                          /\ productId = reservations[loc[p].id].productId)
                         \/ stock'[productId] = stock[productId]]_vars

\* create on one product is about to commit while a hold of the other product
\* is ACTIVE and past its deadline.
OperationsAreLocalWitness ==
    \E p \in Clients :
        /\ pc[p] = "cCommit"
        /\ \E id \in Created :
             /\ reservations[id].productId # loc[p].productId
             /\ reservations[id].status = ACTIVE
             /\ reservations[id].expiresAt <= now

\* C31: a failure inside a sweep run or a recovery run is caught: the run ends,
\* no call of a client is touched by it, and the sweeper can start its next
\* run.
BackgroundFailureCaught ==
    [][\A p \in {Sweeper, Recovery} :
         (/\ pc[p] \in {"eFind", "eUpdate", "eCommit"}
          /\ pc'[p] \notin {"eFind", "eUpdate", "eCommit", "sLoop", "rLoop"}
          /\ loc[p].id \in Created
          /\ reservations'[loc[p].id].status = ACTIVE)
           => /\ pc'[p] = "idle"
              /\ \A c \in Clients : pc'[c] = pc[c] /\ loc'[c] = loc[c]
              /\ CanBegin(Sweeper)']_vars

\* A background run has failed after restoring the stock of a hold: every
\* process is idle again and the hold, restored, is still ACTIVE and stale.
BackgroundFailureCaughtWitness ==
    /\ \A p \in Procs : pc[p] = "idle"
    /\ \E id \in Created :
         /\ reservations[id].status = ACTIVE
         /\ reservations[id].expiresAt <= now
         /\ restored[id] > 0

\* C38: within the sweep, a reservation whose expire(id) keeps failing does
\* not starve the others: every other ACTIVE reservation past its deadline is
\* eventually no longer ACTIVE.
SweepStarvesNoOne ==
    \A id \in Ids \ Failing :
        (id \in Created /\ reservations[id].status = ACTIVE
                        /\ reservations[id].expiresAt <= now)
          ~> (id \in Created /\ reservations[id].status # ACTIVE)

\* C32: the sweeper is started with the process and stopped with it:
\* onModuleInit sets the interval, onModuleDestroy clears it, a sweep run
\* starts only while it is set, and while it is set the runs keep starting,
\* so that a hold past its deadline is expired unless the module is stopped.
SweeperFollowsProcess ==
    /\ [][/\ (~process.up /\ process'.up) => process'.interval = "set"
          /\ (process.up /\ ~process'.up) => process'.interval = "none"
          /\ (pc[Sweeper] = "idle" /\ pc'[Sweeper] # "idle")
               => process.up /\ process.interval = "set"]_vars
    /\ \A id \in Ids :
          (process.up /\ id \in Created /\ reservations[id].status = ACTIVE
                      /\ reservations[id].expiresAt <= now)
            ~> (~process.up \/ (id \in Created /\ reservations[id].status # ACTIVE))

\* The module has been stopped while a hold is ACTIVE past its deadline, and
\* no sweep run is under way.
SweeperFollowsProcessWitness ==
    /\ ~process.up
    /\ process.recovery = "done"
    /\ pc[Sweeper] = "idle"
    /\ \E id \in Created :
         /\ reservations[id].status = ACTIVE
         /\ reservations[id].expiresAt <= now

\* C33: the recovery runs exactly once per process start: a run starts only
\* from the timeout that onModuleInit has set, which is then spent, only
\* onModuleInit sets it, and a timeout that is set does fire.
RecoveryOncePerStart ==
    /\ [][/\ (recoveries' # recoveries \/ (pc[Recovery] = "idle" /\ pc'[Recovery] # "idle"))
               => process.recovery = "pending" /\ process'.recovery = "done"
          /\ (process'.recovery = "pending" /\ process.recovery # "pending")
               => ~process.up /\ process'.up
          /\ (process.recovery = "done" /\ process'.recovery # "done")
               => ~process.up /\ process'.up]_vars
    /\ (process.recovery = "pending") ~> (process.recovery = "done")

\* The recovery of the second start of the process has listed an ACTIVE
\* reservation and is at work on it.
RecoveryOncePerStartWitness ==
    /\ pc[Recovery] # "idle"
    /\ process.recovery = "done"
    /\ recoveries = 1

=============================================================================
